---------------------------- MODULE Spec2Model ----------------------------
(***************************************************************************)
(* A model of royale-sys/wrapper.cpp: the C adapter around the Royale      *)
(* depth-camera SDK.  One caller thread issues the adapter's operations;   *)
(* the SDK's delivery thread calls DataListener::onNewData.  The SDK is    *)
(* not part of the adapter: its statuses are inputs, and the few pieces of *)
(* SDK state the adapter's contract talks about (the registered listener,  *)
(* capture running, the exposure mode) are kept in the record sdk.         *)
(***************************************************************************)
EXTENDS Integers, Sequences, FiniteSets

VARIABLES
    pc,          \* the caller thread's position
    out,         \* the caller's out-parameter slots
    callerInit,  \* what the caller wrote to *camera, *listener before attach
    heap,        \* allocation state of the device and of the DataListener
    frees,       \* how many times each of them was passed to delete
    listenerObj, \* the DataListener's fields (callback, payload)
    attachArgs,  \* the (callback, payload) the caller passes to camera_attach
    sdk,         \* SDK state: connected cameras, registered listener, ...
    sdkLog,      \* the SDK steps camera_attach performed, with their status
    last,        \* the last adapter call that returned: op, status, slots before
    cbLog,       \* every invocation of the foreign callback
    delivered,   \* every frame the SDK handed to onNewData
    running,     \* an onNewData invocation is executing on the SDK thread
    uaf,         \* onNewData was entered on a freed DataListener
    nullDeref,   \* a member function was called through a null Camera*
    lastSet,     \* <<b>> after the last successful camera_set_exposure_mode(b)
    statusString, \* what the SDK's getStatusString answers
    vec,         \* the caller's StringVector: allocation state and elements
    vecLen,      \* what string_vector_length last returned
    proc,        \* the process: "run", "damaged" (heap damaged by undefined
                 \* behaviour, still running) or "aborted"
    cstr         \* the C string buffer last returned to the caller

camVars == <<pc, out, callerInit, heap, frees, listenerObj, attachArgs, sdk,
             sdkLog, last, cbLog, delivered, running, uaf, nullDeref, lastSet>>
strVars == <<statusString, vec, vecLen, proc, cstr>>
vars == <<pc, out, callerInit, heap, frees, listenerObj, attachArgs, sdk,
          sdkLog, last, cbLog, delivered, running, uaf, nullDeref, lastSet,
          statusString, vec, vecLen, proc, cstr>>

---------------------------------------------------------------------------
\* Bounds of the model.
MaxCameras == 1
MaxFrames == 2
MaxStrLen == 2
MaxVecLen == 2

\* Pointer values.
NULL == "NULL"
Dev == "dev"
Lst == "lst"
Stale == "stale"

\* royale::CameraStatus, as the integer the adapter returns.
OK == "SUCCESS"
Statuses == {"SUCCESS", "DEVICE_NOT_INITIALIZED", "RUNTIME_ERROR"}

Callbacks == {"cbA", "cbB"}
Payloads == {"ctx1", "ctx2"}
Frames == {"f1", "f2"}
ExposureModes == {"MANUAL", "AUTOMATIC"}
ExposureLimits == <<50, 2000>>
NoFields == [callback |-> NULL, payload |-> NULL]

\* The TRY macro: TRUE when the enclosing function returns the status early.
TRYNever(status) == FALSE
TRY(status) == status # OK

\* DataListener's constructor: the fields of a new listener.
DataListener(callback, payload) == [callback |-> callback, payload |-> payload]

\* DataListener::onNewData: the call of the foreign callback it makes.
onNewDataFramePayload(fields, frame) ==
    [callback |-> fields.callback, frame |-> frame, payload |-> frame]
onNewData(fields, frame) ==
    [callback |-> fields.callback, frame |-> frame, payload |-> fields.payload]

\* The two directions of the bool <-> royale::ExposureMode mapping.
toExposureModeSwapped(isManual) == IF isManual THEN "AUTOMATIC" ELSE "MANUAL"
toExposureMode(isManual) == IF isManual THEN "MANUAL" ELSE "AUTOMATIC"
fromExposureMode(exposureMode) == exposureMode = "MANUAL"

Returned(op, status) == [op |-> op, status |-> status, pre |-> out]

\* A process that was aborted calls nothing.
Alive == proc # "aborted"

---------------------------------------------------------------------------
\* camera_attach, for one choice of what the SDK answers: whether
\* createCamera yields null, and the statuses of initialize and
\* registerDataListener.  The result is the returned status and the state
\* the call leaves.
Untouched ==
    [status |-> OK, out |-> out, heap |-> heap, fields |-> listenerObj,
     registered |-> sdk.registered, log |-> <<>>]

AttachResultZeroing(devNull, initSt, regSt) ==
    LET cleared == [out EXCEPT !.camera = NULL, !.listener = NULL]
        cameraDevice == IF devNull THEN NULL ELSE Dev
        out1 == [cleared EXCEPT !.camera = cameraDevice]
        heap1 == IF devNull THEN heap ELSE [heap EXCEPT ![Dev] = "live"]
        out2 == [out1 EXCEPT !.listener = Lst]
        heap2 == [heap1 EXCEPT ![Lst] = "live"]
        fields == DataListener(attachArgs.callback, attachArgs.payload)
        logInit == <<[call |-> "initialize", status |-> initSt]>>
        logReg == logInit \o <<[call |-> "new DataListener", status |-> OK],
                               [call |-> "registerDataListener", status |-> regSt]>>
    IN  IF sdk.connected > 0
        THEN IF cameraDevice # NULL
             THEN IF TRY(initSt)
                  THEN [Untouched EXCEPT !.status = initSt, !.out = out1,
                                         !.heap = heap1, !.log = logInit]
                  ELSE IF TRY(regSt)
                       THEN [Untouched EXCEPT !.status = regSt, !.out = out2,
                                              !.heap = heap2, !.fields = fields,
                                              !.log = logReg]
                       ELSE [Untouched EXCEPT !.out = out2, !.heap = heap2,
                                              !.fields = fields, !.log = logReg,
                                              !.registered = Lst]
             ELSE [Untouched EXCEPT !.out = out1]
        ELSE [Untouched EXCEPT !.out = cleared]

AttachResult(devNull, initSt, regSt) ==
    LET cameraDevice == IF devNull THEN NULL ELSE Dev
        out1 == [out EXCEPT !.camera = cameraDevice]
        heap1 == IF devNull THEN heap ELSE [heap EXCEPT ![Dev] = "live"]
        out2 == [out1 EXCEPT !.listener = Lst]
        heap2 == [heap1 EXCEPT ![Lst] = "live"]
        fields == DataListener(attachArgs.callback, attachArgs.payload)
        logInit == <<[call |-> "initialize", status |-> initSt]>>
        logNew == logInit \o <<[call |-> "new DataListener", status |-> OK]>>
        logReg == logNew \o <<[call |-> "registerDataListener", status |-> regSt]>>
    IN  IF sdk.connected > 0
        THEN IF cameraDevice # NULL
             THEN IF TRY(initSt)
                  THEN [Untouched EXCEPT !.status = initSt, !.out = out1,
                                         !.heap = heap1, !.log = logInit]
                  ELSE IF TRY(regSt)
                       THEN [Untouched EXCEPT !.status = regSt, !.out = out2,
                                              !.heap = heap2, !.fields = fields,
                                              !.log = logReg]
                       ELSE [Untouched EXCEPT !.out = out2, !.heap = heap2,
                                              !.fields = fields, !.log = logReg,
                                              !.registered = Lst]
             ELSE [Untouched EXCEPT !.out = out1]
        ELSE Untouched

camera_attach ==
    /\ Alive
    /\ pc = "start"
    /\ \E devNull \in BOOLEAN, initSt \in Statuses, regSt \in Statuses :
         LET r == AttachResult(devNull, initSt, regSt)
         IN  /\ out' = r.out
             /\ heap' = r.heap
             /\ listenerObj' = r.fields
             /\ sdk' = [sdk EXCEPT !.registered = r.registered]
             /\ sdkLog' = r.log
             /\ last' = Returned("camera_attach", r.status)
    /\ pc' = "ready"
    /\ UNCHANGED <<callerInit, frees, attachArgs, cbLog, delivered, running,
                   uaf, nullDeref, lastSet, strVars>>


---------------------------------------------------------------------------
\* The caller may use a camera handle only if camera_attach produced it.
HasCamera ==
    Alive /\ pc = "ready" /\ out.camera = Dev /\ heap[Dev] = "live"

camera_set_frame_rate ==
    /\ HasCamera
    /\ \E status \in Statuses :
         last' = Returned("camera_set_frame_rate",
                          IF TRY(status) THEN status ELSE OK)
    /\ UNCHANGED <<pc, out, callerInit, heap, frees, listenerObj, attachArgs,
                   sdk, sdkLog, cbLog, delivered, running, uaf, nullDeref,
                   lastSet, strVars>>

\* What camera_get_exposure_mode leaves in *isManual: the SDK fills the
\* local exposureMode, and the slot is assigned after the TRY.
isManualAfterEager(status, exposureMode, slot) == fromExposureMode(exposureMode)
isManualAfter(status, exposureMode, slot) ==
    IF TRY(status) THEN slot ELSE fromExposureMode(exposureMode)

camera_get_exposure_mode ==
    /\ HasCamera
    /\ \E status \in Statuses :
         /\ out' = [out EXCEPT !.isManual =
                        isManualAfter(status, sdk.exposureMode, out.isManual)]
         /\ last' = Returned("camera_get_exposure_mode",
                             IF TRY(status) THEN status ELSE OK)
    /\ UNCHANGED <<pc, callerInit, heap, frees, listenerObj, attachArgs, sdk,
                   sdkLog, cbLog, delivered, running, uaf, nullDeref, lastSet,
                   strVars>>

\* The SDK's setExposureMode: the mode is taken over when it returns SUCCESS.
SdkSetExposureMode(status, exposureMode) ==
    IF status = OK THEN [sdk EXCEPT !.exposureMode = exposureMode] ELSE sdk

camera_set_exposure_mode ==
    /\ HasCamera
    /\ \E isManual \in BOOLEAN, status \in Statuses :
         /\ sdk' = SdkSetExposureMode(status, toExposureMode(isManual))
         /\ lastSet' = IF TRY(status) THEN lastSet ELSE <<isManual>>
         /\ last' = Returned("camera_set_exposure_mode",
                             IF TRY(status) THEN status ELSE OK)
    /\ UNCHANGED <<pc, out, callerInit, heap, frees, listenerObj, attachArgs,
                   sdkLog, cbLog, delivered, running, uaf, nullDeref,
                   strVars>>

camera_get_exposure_limits ==
    /\ HasCamera
    /\ \E status \in Statuses :
         /\ out' = IF TRY(status)
                   THEN out
                   ELSE [out EXCEPT !.low = ExposureLimits[1],
                                    !.high = ExposureLimits[2]]
         /\ last' = Returned("camera_get_exposure_limits",
                             IF TRY(status) THEN status ELSE OK)
    /\ UNCHANGED <<pc, callerInit, heap, frees, listenerObj, attachArgs, sdk,
                   sdkLog, cbLog, delivered, running, uaf, nullDeref, lastSet,
                   strVars>>

camera_capture_start ==
    /\ HasCamera
    /\ \E status \in Statuses :
         /\ sdk' = IF status = OK THEN [sdk EXCEPT !.capturing = TRUE] ELSE sdk
         /\ last' = Returned("camera_capture_start",
                             IF TRY(status) THEN status ELSE OK)
    /\ UNCHANGED <<pc, out, callerInit, heap, frees, listenerObj, attachArgs,
                   sdkLog, cbLog, delivered, running, uaf, nullDeref, lastSet,
                   strVars>>

camera_capture_stop ==
    /\ HasCamera
    /\ \E status \in Statuses :
         /\ sdk' = IF status = OK THEN [sdk EXCEPT !.capturing = FALSE] ELSE sdk
         /\ last' = Returned("camera_capture_stop",
                             IF TRY(status) THEN status ELSE OK)
    /\ UNCHANGED <<pc, out, callerInit, heap, frees, listenerObj, attachArgs,
                   sdkLog, cbLog, delivered, running, uaf, nullDeref, lastSet,
                   strVars>>

---------------------------------------------------------------------------
\* The SDK's delivery thread hands one frame to the registered listener:
\* onNewData runs and calls the foreign callback.  A listener that was
\* freed has fields of unknown content.
SdkDeliverFrame ==
    /\ Alive
    /\ heap[Dev] = "live"
    /\ sdk.capturing
    /\ sdk.registered # NULL
    /\ ~running
    /\ Len(delivered) < MaxFrames
    /\ \E frame \in Frames :
         \E fields \in (IF heap[Lst] = "live"
                        THEN {listenerObj}
                        ELSE [callback : Callbacks, payload : Payloads]) :
           /\ delivered' = Append(delivered, frame)
           /\ cbLog' = Append(cbLog, onNewData(fields, frame))
    /\ running' = TRUE
    /\ uaf' = (uaf \/ heap[Lst] # "live")
    /\ UNCHANGED <<pc, out, callerInit, heap, frees, listenerObj, attachArgs,
                   sdk, sdkLog, last, nullDeref, lastSet, strVars>>

\* The foreign callback returns, and onNewData with it.
CallbackReturn ==
    /\ Alive
    /\ running
    /\ running' = FALSE
    /\ UNCHANGED <<pc, out, callerInit, heap, frees, listenerObj, attachArgs,
                   sdk, sdkLog, last, cbLog, delivered, uaf, nullDeref,
                   lastSet, strVars>>

---------------------------------------------------------------------------
\* The caller passes camera_delete the pair its slots hold, and only when
\* each is null or a handle camera_attach produced.
MayDelete ==
    Alive /\ pc = "ready" /\ out.camera \in {NULL, Dev} /\ out.listener \in {NULL, Lst}

\* The SDK's unregisterDataListener does not return while a delivery to the
\* listener is in progress.
SdkUnregisterReturns == ~running

DeleteDone == [op |-> "camera_delete", status |-> OK, pre |-> out]

\* Variants of camera_delete with its statements misplaced.
camera_deleteFreeFirst ==
    \/ /\ MayDelete
       /\ pc' = IF out.listener # NULL THEN "del_listener" ELSE "del_camera"
       /\ UNCHANGED <<out, callerInit, heap, frees, listenerObj, attachArgs,
                      sdk, sdkLog, last, cbLog, delivered, running, uaf,
                      nullDeref, lastSet, strVars>>
    \/ /\ Alive /\ pc = "del_listener"
       /\ heap' = [heap EXCEPT ![Lst] = "freed"]
       /\ frees' = [frees EXCEPT ![Lst] = @ + 1]
       /\ pc' = "del_camera"
       /\ UNCHANGED <<out, callerInit, listenerObj, attachArgs, sdk, sdkLog,
                      last, cbLog, delivered, running, uaf, nullDeref,
                      lastSet, strVars>>
    \/ /\ Alive /\ pc = "del_camera"
       /\ (out.listener # NULL) => SdkUnregisterReturns
       /\ sdk' = IF out.listener # NULL
                 THEN [sdk EXCEPT !.registered = NULL] ELSE sdk
       /\ heap' = IF out.camera # NULL
                  THEN [heap EXCEPT ![Dev] = "freed"] ELSE heap
       /\ frees' = IF out.camera # NULL
                   THEN [frees EXCEPT ![Dev] = @ + 1] ELSE frees
       /\ pc' = "deleted"
       /\ last' = DeleteDone
       /\ UNCHANGED <<out, callerInit, listenerObj, attachArgs, sdkLog,
                      cbLog, delivered, running, uaf, nullDeref, lastSet,
                      strVars>>

camera_deleteListenerOnly ==
    \/ /\ MayDelete
       /\ pc' = IF out.listener # NULL THEN "del_listener" ELSE "del_camera"
       /\ UNCHANGED <<out, callerInit, heap, frees, listenerObj, attachArgs,
                      sdk, sdkLog, last, cbLog, delivered, running, uaf,
                      nullDeref, lastSet, strVars>>
    \/ /\ Alive /\ pc = "del_listener"
       /\ heap' = [heap EXCEPT ![Lst] = "freed"]
       /\ frees' = [frees EXCEPT ![Lst] = @ + 1]
       /\ pc' = "deleted"
       /\ last' = DeleteDone
       /\ UNCHANGED <<out, callerInit, listenerObj, attachArgs, sdk, sdkLog,
                      cbLog, delivered, running, uaf, nullDeref, lastSet,
                      strVars>>
    \/ /\ Alive /\ pc = "del_camera"
       /\ heap' = IF out.camera # NULL
                  THEN [heap EXCEPT ![Dev] = "freed"] ELSE heap
       /\ frees' = IF out.camera # NULL
                   THEN [frees EXCEPT ![Dev] = @ + 1] ELSE frees
       /\ pc' = "deleted"
       /\ last' = DeleteDone
       /\ UNCHANGED <<out, callerInit, listenerObj, attachArgs, sdk, sdkLog,
                      cbLog, delivered, running, uaf, nullDeref, lastSet,
                      strVars>>

camera_deleteNested ==
    \/ /\ MayDelete
       /\ (out.listener # NULL /\ out.camera # NULL) => SdkUnregisterReturns
       /\ sdk' = IF out.listener # NULL /\ out.camera # NULL
                 THEN [sdk EXCEPT !.registered = NULL] ELSE sdk
       /\ nullDeref' = (nullDeref \/ (out.listener # NULL /\ out.camera = NULL))
       /\ pc' = IF out.listener # NULL THEN "del_listener" ELSE "deleted"
       /\ last' = IF out.listener # NULL THEN last ELSE DeleteDone
       /\ UNCHANGED <<out, callerInit, heap, frees, listenerObj, attachArgs,
                      sdkLog, cbLog, delivered, running, uaf, lastSet,
                      strVars>>
    \/ /\ Alive /\ pc = "del_listener"
       /\ heap' = [heap EXCEPT ![Lst] = "freed"]
       /\ frees' = [frees EXCEPT ![Lst] = @ + 1]
       /\ pc' = "del_camera"
       /\ UNCHANGED <<out, callerInit, listenerObj, attachArgs, sdk, sdkLog,
                      last, cbLog, delivered, running, uaf, nullDeref,
                      lastSet, strVars>>
    \/ /\ Alive /\ pc = "del_camera"
       /\ heap' = IF out.camera # NULL
                  THEN [heap EXCEPT ![Dev] = "freed"] ELSE heap
       /\ frees' = IF out.camera # NULL
                   THEN [frees EXCEPT ![Dev] = @ + 1] ELSE frees
       /\ pc' = "deleted"
       /\ last' = DeleteDone
       /\ UNCHANGED <<out, callerInit, listenerObj, attachArgs, sdk, sdkLog,
                      cbLog, delivered, running, uaf, nullDeref, lastSet,
                      strVars>>

\* camera_delete, one statement per step: unregisterDataListener (when the
\* listener is non-null), delete listener, delete the camera device.
\* Calling unregisterDataListener through a null camera is undefined: the
\* process may stop there or go on.
camera_delete ==
    \/ /\ MayDelete
       /\ (out.listener # NULL /\ out.camera # NULL) => SdkUnregisterReturns
       /\ sdk' = IF out.listener # NULL /\ out.camera # NULL
                 THEN [sdk EXCEPT !.registered = NULL] ELSE sdk
       /\ nullDeref' = (nullDeref \/ (out.listener # NULL /\ out.camera = NULL))
       /\ \E next \in (IF out.listener = NULL THEN {"del_camera"}
                       ELSE IF out.camera = NULL THEN {"del_listener", "crashed"}
                       ELSE {"del_listener"}) : pc' = next
       /\ UNCHANGED <<out, callerInit, heap, frees, listenerObj, attachArgs,
                      sdkLog, last, cbLog, delivered, running, uaf, lastSet,
                      strVars>>
    \/ /\ Alive /\ pc = "del_listener"
       /\ heap' = [heap EXCEPT ![Lst] = "freed"]
       /\ frees' = [frees EXCEPT ![Lst] = @ + 1]
       /\ pc' = "del_camera"
       /\ UNCHANGED <<out, callerInit, listenerObj, attachArgs, sdk, sdkLog,
                      last, cbLog, delivered, running, uaf, nullDeref,
                      lastSet, strVars>>
    \/ /\ Alive /\ pc = "del_camera"
       /\ heap' = IF out.camera # NULL
                  THEN [heap EXCEPT ![Dev] = "freed"] ELSE heap
       /\ frees' = IF out.camera # NULL
                   THEN [frees EXCEPT ![Dev] = @ + 1] ELSE frees
       /\ pc' = "deleted"
       /\ last' = DeleteDone
       /\ UNCHANGED <<out, callerInit, listenerObj, attachArgs, sdk, sdkLog,
                      cbLog, delivered, running, uaf, nullDeref, lastSet,
                      strVars>>

---------------------------------------------------------------------------
\* Strings: royale::String contents are sequences of characters; a C
\* string buffer is the bytes strcpy wrote inside the allocation and the
\* bytes it wrote past its end.  A byte written past the end is undefined
\* behaviour: whether the caller later finds it there, and whether the
\* process goes on, is not determined.
Chars == {"a"}
NUL == "NUL"
Strings == UNION {[1..n -> Chars] : n \in 0..MaxStrLen}
StringVectors == UNION {[1..n -> Strings] : n \in 0..MaxVecLen}
NoBuffer == [live |-> FALSE, cap |-> 0, bytes |-> <<>>, past |-> <<>>,
             src |-> <<>>, terminated |-> FALSE]
NoVector == [state |-> "none", elems |-> <<>>]

\* What a call leaves the process in.  A call with undefined behaviour
\* may abort the process on the spot, may damage the heap and return, or
\* may return with no harm done; a call without leaves the process as it
\* found it.
AfterUB(undefined) ==
    IF undefined
    THEN {"damaged", "aborted"} \cup (IF proc = "run" THEN {"run"} ELSE {})
    ELSE {proc}

\* With the heap damaged, a later call into the allocator, one that has no
\* undefined behaviour of its own, may find the damage and abort.
AbortOnDamagedHeap ==
    /\ proc = "damaged"
    /\ proc' = "aborted"
    /\ UNCHANGED <<statusString, vec, vecLen, cstr, camVars>>

\* An int read from freed memory: any value, of which the model keeps one
\* below zero, every valid count and one above.
GarbageInts == (-1)..(MaxVecLen + 1)

\* new char[string.size()] followed by strcpy(output, string.data()).
CopyToNewBuffer(string) ==
    LET size == Len(string)
        written == string \o <<NUL>>
        past == SubSeq(written, size + 1, Len(written))
    IN  {[live |-> TRUE, cap |-> size, bytes |-> SubSeq(written, 1, size),
          past |-> past, src |-> string, terminated |-> t] :
            t \in IF past = <<>> THEN {TRUE} ELSE BOOLEAN}

camera_status_to_string ==
    /\ Alive
    /\ ~cstr.live
    /\ \E buffer \in CopyToNewBuffer(statusString) :
         \E after \in AfterUB(buffer.past # <<>>) :
           /\ proc' = after
           /\ cstr' = IF after = "aborted" THEN cstr ELSE buffer
    /\ UNCHANGED <<statusString, vec, vecLen, camVars>>

\* delete string, on memory that new char[n] allocated: the scalar delete
\* of an array allocation is undefined.
delete_string ==
    /\ Alive
    /\ cstr.live
    /\ \E after \in AfterUB(TRUE) :
         /\ proc' = after
         /\ cstr' = IF after = "aborted" THEN cstr ELSE NoBuffer
    /\ UNCHANGED <<statusString, vec, vecLen, camVars>>

new_string_vector ==
    /\ Alive
    /\ vec.state # "live"
    /\ vec' = [state |-> "live", elems |-> <<>>]
    /\ UNCHANGED <<statusString, vecLen, proc, cstr, camVars>>

\* camera_get_use_cases: the SDK's getUseCases writes the vector in place;
\* what it leaves there, on success as on failure, is the SDK's choice.
camera_get_use_cases ==
    /\ HasCamera
    /\ vec.state = "live"
    /\ \E status \in Statuses, useCases \in StringVectors :
         /\ vec' = [vec EXCEPT !.elems = useCases]
         /\ last' = Returned("camera_get_use_cases",
                             IF TRY(status) THEN status ELSE OK)
    /\ UNCHANGED <<pc, out, callerInit, heap, frees, listenerObj, attachArgs,
                   sdk, sdkLog, cbLog, delivered, running, uaf, nullDeref,
                   lastSet, statusString, vecLen, proc, cstr>>

\* string_vector_length; on a vector already deleted it reads freed memory
\* and returns whatever int lies there.
string_vector_length ==
    /\ Alive
    /\ vec.state # "none"
    /\ \E count \in (IF vec.state = "live"
                     THEN {Len(vec.elems)} ELSE GarbageInts) :
         \E after \in AfterUB(vec.state # "live") :
           /\ proc' = after
           /\ vecLen' = IF after = "aborted" THEN vecLen ELSE count
    /\ UNCHANGED <<statusString, vec, cstr, camVars>>

\* string_vector_get(vector, index): operator[] is unchecked, so an index
\* past the end, or a vector already deleted, yields a string of unknown
\* content.
string_vector_get ==
    /\ Alive
    /\ vec.state # "none"
    /\ ~cstr.live
    /\ \E index \in 0..(MaxVecLen - 1) :
         LET defined == vec.state = "live" /\ index < Len(vec.elems)
         IN  \E string \in (IF defined
                            THEN {vec.elems[index + 1]} ELSE Strings) :
               \E buffer \in CopyToNewBuffer(string) :
                 \E after \in AfterUB(~defined \/ buffer.past # <<>>) :
                   /\ proc' = after
                   /\ cstr' = IF after = "aborted" THEN cstr ELSE buffer
    /\ UNCHANGED <<statusString, vec, vecLen, camVars>>

\* delete_string_vector; deleting the vector twice is undefined.
delete_string_vector ==
    /\ Alive
    /\ vec.state # "none"
    /\ \E after \in AfterUB(vec.state = "freed") :
         /\ proc' = after
         /\ vec' = IF after = "aborted"
                   THEN vec ELSE [state |-> "freed", elems |-> <<>>]
    /\ UNCHANGED <<statusString, vecLen, cstr, camVars>>

---------------------------------------------------------------------------
CamInit ==
    /\ pc = "start"
    /\ out \in [camera : {NULL, Stale}, listener : {NULL, Stale},
                isManual : {FALSE}, low : {0}, high : {0}]
    /\ callerInit = [camera |-> out.camera, listener |-> out.listener]
    /\ heap = [h \in {Dev, Lst} |-> "none"]
    /\ frees = [h \in {Dev, Lst} |-> 0]
    /\ listenerObj = NoFields
    /\ attachArgs \in [callback : Callbacks, payload : Payloads]
    /\ sdk \in [connected : 0..MaxCameras, registered : {NULL},
                capturing : {FALSE}, exposureMode : ExposureModes]
    /\ sdkLog = <<>>
    /\ last = [op |-> "none", status |-> OK, pre |-> out]
    /\ cbLog = <<>>
    /\ delivered = <<>>
    /\ running = FALSE
    /\ uaf = FALSE
    /\ nullDeref = FALSE
    /\ lastSet = <<>>

Init ==
    /\ CamInit
    /\ statusString = <<>>
    /\ vec = NoVector
    /\ vecLen = 0
    /\ proc = "run"
    /\ cstr = NoBuffer

Next ==
    \/ camera_attach
    \/ camera_set_frame_rate
    \/ camera_get_exposure_mode
    \/ camera_set_exposure_mode
    \/ camera_get_exposure_limits
    \/ camera_capture_start
    \/ camera_capture_stop
    \/ camera_delete
    \/ SdkDeliverFrame
    \/ CallbackReturn

Spec == Init /\ [][Next]_vars

\* The string operations, over every SDK string within the bounds, on a
\* camera that camera_attach may have produced.
InitStr ==
    /\ CamInit
    /\ out.camera = NULL /\ out.listener = NULL
    /\ attachArgs = [callback |-> "cbA", payload |-> "ctx1"]
    /\ sdk.connected = 1 /\ sdk.exposureMode = "AUTOMATIC"
    /\ statusString \in Strings
    /\ vec = NoVector
    /\ vecLen = 0
    /\ proc = "run"
    /\ cstr = NoBuffer

NextStr ==
    \/ camera_attach
    \/ camera_status_to_string
    \/ delete_string
    \/ new_string_vector
    \/ camera_get_use_cases
    \/ string_vector_length
    \/ string_vector_get
    \/ delete_string_vector
    \/ AbortOnDamagedHeap

SpecStr == InitStr /\ [][NextStr]_vars

---------------------------------------------------------------------------
\* Shorthands of the properties below.
AttachReturned == pc = "ready" /\ last.op = "camera_attach"
CallerInitNull == callerInit.camera = NULL /\ callerInit.listener = NULL
Failed == last.status # OK

\* C1: camera_delete unregisters the listener before it frees it and frees
\* the camera last, so in every interleaving with the SDK's deliveries no
\* onNewData invocation starts on, or is still executing on, a freed
\* listener.
C1_NoCallbackOnFreedListener ==
    /\ ~uaf
    /\ running => heap[Lst] = "live"
    /\ heap[Lst] = "freed" => sdk.registered # Lst
    /\ heap[Dev] = "freed" => heap[Lst] # "live"

\* camera_delete ran to its end while capture was running and frames had
\* been delivered.
C1_Witness ==
    /\ pc = "deleted"
    /\ heap[Lst] = "freed" /\ heap[Dev] = "freed"
    /\ sdk.capturing
    /\ Len(cbLog) > 0

\* C2: once camera_delete has returned, the foreign callback is not invoked
\* again.
C2_NoCallbackAfterDelete ==
    [][pc = "deleted" => (cbLog' = cbLog /\ delivered' = delivered)]_vars

\* camera_delete has returned for a registered listener while capture was
\* running and the SDK still had frames to deliver.
C2_Witness ==
    /\ pc = "deleted"
    /\ out.listener = Lst
    /\ sdk.capturing
    /\ Len(cbLog) > 0 /\ Len(cbLog) < MaxFrames

\* C3: with zero cameras connected, camera_attach returns a status other
\* than SUCCESS and the out-parameters, null before the call, stay null.
C3_NoDeviceStatus ==
    (AttachReturned /\ sdk.connected = 0 /\ CallerInitNull)
        => (last.status # OK /\ out.camera = NULL /\ out.listener = NULL)

\* C4 as stated: whenever camera_attach, camera_get_exposure_mode or
\* camera_get_exposure_limits returns a non-SUCCESS status, every
\* out-parameter is as the caller set it before the call.
C4_OutParamsOnlyOnSuccess ==
    (/\ last.op \in {"camera_attach", "camera_get_exposure_mode",
                     "camera_get_exposure_limits"}
     /\ Failed)
        => out = last.pre

\* C4 amended: the two getters leave their out-parameters as the caller set
\* them when they fail; a failing camera_attach has written the created
\* device to *camera, has left *listener untouched when initialize failed
\* and has written the new listener to it when registration failed.
C4_FailedCallsAndOutParams ==
    /\ (last.op \in {"camera_get_exposure_mode", "camera_get_exposure_limits"}
        /\ Failed) => out = last.pre
    /\ (AttachReturned /\ Failed) =>
          /\ out.camera = Dev
          /\ out.listener = IF Len(sdkLog) = 1 THEN last.pre.listener ELSE Lst
          /\ out.isManual = last.pre.isManual
          /\ out.low = last.pre.low /\ out.high = last.pre.high

\* camera_get_exposure_mode failed on a device in MANUAL mode while the
\* caller's *isManual held false.
C4_Witness ==
    /\ last.op = "camera_get_exposure_mode"
    /\ Failed
    /\ sdk.exposureMode = "MANUAL"
    /\ ~out.isManual

\* C5: with a camera connected and a non-null device, camera_attach calls
\* initialize, constructs the listener and registers it, in that order,
\* stops at the first status that is not SUCCESS and returns it, and
\* returns SUCCESS only when every step succeeded.
C5_AttachShortCircuits ==
    (AttachReturned /\ sdk.connected > 0 /\ out.camera = Dev) =>
        LET n == Len(sdkLog)
            order == <<"initialize", "new DataListener", "registerDataListener">>
        IN  /\ n \in 1..3
            /\ \A i \in 1..n : sdkLog[i].call = order[i]
            /\ \A i \in 1..(n - 1) : sdkLog[i].status = OK
            /\ last.status = sdkLog[n].status
            /\ sdkLog[n].status = OK => n = 3
            /\ n = 1 => (heap[Lst] = "none" /\ sdk.registered = NULL)
            /\ sdk.registered = Lst <=> last.status = OK

\* initialize failed: camera_attach returned its status after that one
\* step.
C5_Witness ==
    /\ AttachReturned
    /\ Len(sdkLog) = 1
    /\ last.status = "RUNTIME_ERROR"
    /\ heap[Dev] = "live"

\* C6: the listener's (callback, payload) fields are never written after
\* construction, and every delivery calls the stored callback once, with
\* the delivered frame and the payload given to camera_attach.
C6_CallbackFidelity ==
    /\ [](/\ Len(cbLog) = Len(delivered)
          /\ \A i \in 1..Len(cbLog) :
                cbLog[i] = [callback |-> attachArgs.callback,
                            frame |-> delivered[i],
                            payload |-> attachArgs.payload])
    /\ [][listenerObj # NoFields => listenerObj' = listenerObj]_vars

\* A configuration call returned while a callback was executing, after a
\* second frame had been delivered.
C6_Witness ==
    /\ last.op = "camera_set_frame_rate"
    /\ running
    /\ Len(cbLog) >= 2
    /\ cbLog[2].payload = "ctx2"

\* C7: with zero cameras connected, camera_attach returns SUCCESS, creates
\* no device and no listener, and leaves *camera and *listener as the
\* caller wrote them.
C7_ZeroCamerasUntouched ==
    (AttachReturned /\ sdk.connected = 0) =>
        /\ last.status = OK
        /\ out = last.pre
        /\ heap[Dev] = "none" /\ heap[Lst] = "none"
        /\ sdkLog = <<>>
        /\ listenerObj = NoFields

\* camera_attach returned with no camera connected and the caller's slots
\* holding non-null values.
C7_Witness ==
    /\ AttachReturned
    /\ sdk.connected = 0
    /\ out.camera = Stale /\ out.listener = Stale

\* C8: the C string returned by camera_status_to_string and
\* string_vector_get is a null-terminated copy of the SDK string, written
\* wholly inside the allocated buffer.
C8_CopyInsideBuffer ==
    cstr.live => (/\ cstr.past = <<>>
                  /\ cstr.bytes = cstr.src \o <<NUL>>
                  /\ cstr.terminated)

\* C9: after a successful camera_set_exposure_mode(b), a successful
\* camera_get_exposure_mode writes b to *isManual.
C9_ExposureModeRoundTrip ==
    (last.op = "camera_get_exposure_mode" /\ last.status = OK
     /\ lastSet # <<>>)
        => out.isManual = lastSet[1]

\* A successful get after a successful set(true), with *isManual false
\* before the get.
C9_Witness ==
    /\ last.op = "camera_get_exposure_mode"
    /\ last.status = OK
    /\ lastSet = <<TRUE>>
    /\ ~last.pre.isManual

\* C10: after camera_attach on null out-parameters, whatever its outcome,
\* camera_delete may be called with the pair, dereferences no null camera,
\* and leaves every object attach allocated freed exactly once.
C10_DeleteFreesExactlyOnce ==
    CallerInitNull =>
        /\ ~nullDeref /\ pc # "crashed"
        /\ \A h \in {Dev, Lst} : frees[h] <= 1
        /\ AttachReturned => MayDelete
        /\ pc = "deleted" =>
              \A h \in {Dev, Lst} :
                  /\ heap[h] # "live"
                  /\ heap[h] = "freed" <=> frees[h] = 1

\* Registration failed in camera_attach, and camera_delete then freed the
\* listener and the device.
C10_Witness ==
    /\ pc = "deleted"
    /\ CallerInitNull
    /\ Len(sdkLog) = 3 /\ sdkLog[3].status # OK
    /\ heap[Lst] = "freed" /\ heap[Dev] = "freed"

=============================================================================
